---- MODULE Spec2Model ----
(***************************************************************************)
(* quick-find: selection-letter assignment (Entry::get_selection,          *)
(* Menu::find_entry_selections) and the keystroke filter (Menu::filter,    *)
(* filter_entries, close, the global-shortcut handler).                    *)
(*                                                                         *)
(* A Rust String is a sequence of chars; a char is a one-token string.     *)
(* "e_acute" stands for U+00E9, the only char of the model that takes two  *)
(* bytes in UTF-8; CHAR_MAX stands for char::MAX (U+10FFFF).               *)
(***************************************************************************)
EXTENDS Integers, Sequences, FiniteSets, TLC

VARIABLES menu, current_entries, state_idx, status, dispatched, last, gs_call,
          menus, mutex, pc, local, opened_menu

\* the state of the threads: the Vec<Menu> behind its Mutex, the holders of
\* the two mutexes, each thread's position and locals, and the menu the
\* stored index was written for
threads == <<menus, mutex, pc, local, opened_menu>>

\* the state of the one menu that Spec and SpecSel follow
session == <<menu, current_entries, status, dispatched, last, gs_call>>

vars == <<menu, current_entries, state_idx, status, dispatched, last, gs_call,
          menus, mutex, pc, local, opened_menu>>

-----------------------------------------------------------------------------
(* Bounds *)

\* longest list of entries a menu is opened with
MaxEntries == 3

\* passes of the minimize-keys loop that are followed before the loop is
\* reported as not returning
MaxPasses == 8

-----------------------------------------------------------------------------
(* chars and strings *)

CHAR_MAX == "CHAR_MAX"

USIZE_MAX == -1

Chars == {"a", "b", "c", "e", "h", "l", "n", "p", "r", "t", "x", "y",
          "A", "B", "C", " ", "e_acute"}

AlphabetSize == Cardinality(Chars)

\* char::to_lowercase().next()
to_lowercase(c) ==
    CASE c = "A" -> "a"
      [] c = "B" -> "b"
      [] c = "C" -> "c"
      [] OTHER -> c

\* char::len_utf8
len_utf8(c) == IF c = "e_acute" THEN 2 ELSE 1

\* str::contains(char)
contains(s, c) == \E i \in 1..Len(s) : s[i] = c

\* the byte offset char_indices() reports for the k-th char of s (k from 1)
RECURSIVE char_index(_, _)
char_index(s, k) ==
    IF k <= 1 THEN 0 ELSE char_index(s, k - 1) + len_utf8(s[k - 1])

\* Regex::is_match on a one-char string, for the patterns of the model:
\* NoRegex is Option::None, DefaultRegex is default_allowed_regex()
NoRegex == "None"

DefaultRegex == "[A-z0-9]"

is_match(regex, c) ==
    CASE regex = DefaultRegex -> c \notin {" ", "e_acute"}
      [] OTHER -> TRUE

-----------------------------------------------------------------------------
(* entry.rs *)

ActionOpen == [type |-> "Open"]

ActionCommand(cmd) == [type |-> "Command", cmd |-> cmd]

\* Entry::new
EntryNew(string, full_string, action) ==
    [string |-> string,
     selection_letter |-> CHAR_MAX,
     full_string |-> full_string,
     selection_index |-> USIZE_MAX,
     pos |-> 0,
     action |-> action]

\* char_selected without `if c == ' ' { continue }`
char_selected_space(c, allowed_chars, allowed_regex, disallowed_chars, match_case, match_selection_case) ==
    /\ \/ allowed_chars = <<>>
       \/ IF match_case
          THEN contains(allowed_chars, c)
          ELSE contains(allowed_chars, to_lowercase(c))
    /\ \/ allowed_regex = NoRegex
       \/ is_match(allowed_regex, c)
    /\ IF match_selection_case
       THEN ~contains(disallowed_chars, c)
       ELSE ~contains(disallowed_chars, to_lowercase(c))

\* the body of the for loop of get_selection for one char c: TRUE when the
\* loop reaches the assignment, FALSE when it continues
char_selected(c, allowed_chars, allowed_regex, disallowed_chars, match_case, match_selection_case) ==
    /\ c # " "
    /\ \/ allowed_chars = <<>>
       \/ IF match_case
          THEN contains(allowed_chars, c)
          ELSE contains(allowed_chars, to_lowercase(c))
    /\ \/ allowed_regex = NoRegex
       \/ is_match(allowed_regex, c)
    /\ IF match_selection_case
       THEN ~contains(disallowed_chars, c)
       ELSE ~contains(disallowed_chars, to_lowercase(c))

\* the for loop of get_selection from the k-th char on (k from 1):
\* the position of the char it stops at, 0 when it runs off the string
RECURSIVE scan(_, _, _, _, _, _, _)
scan(string, k, allowed_chars, allowed_regex, disallowed_chars, match_case, match_selection_case) ==
    IF k > Len(string) THEN 0
    ELSE IF char_selected(string[k], allowed_chars, allowed_regex,
                          disallowed_chars, match_case, match_selection_case)
         THEN k
         ELSE scan(string, k + 1, allowed_chars, allowed_regex,
                   disallowed_chars, match_case, match_selection_case)

\* get_selection that starts the entry over when its scan fails
get_selection_reset(entry, allowed_chars, allowed_regex, disallowed_chars, match_case, match_selection_case) ==
    LET k == scan(entry.string, entry.pos + 1, allowed_chars, allowed_regex,
                  disallowed_chars, match_case, match_selection_case)
    IN  IF k = 0
        THEN [ret |-> FALSE,
              entry |-> EntryNew(entry.string, entry.full_string, entry.action)]
        ELSE [ret |-> TRUE,
              entry |-> [entry EXCEPT
                           !.selection_index = char_index(entry.string, k),
                           !.selection_letter = entry.string[k]]]

\* Entry::get_selection: the returned bool and the entry as it is left.
\* skip(self.pos) counts chars; the index stored is char_indices()'s byte
\* offset; a failed scan leaves selection_letter and selection_index as
\* they were.
get_selection(entry, allowed_chars, allowed_regex, disallowed_chars, match_case, match_selection_case) ==
    LET k == scan(entry.string, entry.pos + 1, allowed_chars, allowed_regex,
                  disallowed_chars, match_case, match_selection_case)
    IN  IF k = 0
        THEN [ret |-> FALSE, entry |-> entry]
        ELSE [ret |-> TRUE,
              entry |-> [entry EXCEPT
                           !.selection_index = char_index(entry.string, k),
                           !.selection_letter = entry.string[k]]]

-----------------------------------------------------------------------------
(* menu.rs: find_entry_selections *)

\* the char pushed to used_chars after a successful get_selection
used_char(m, letter) ==
    IF m.match_selection_case THEN letter ELSE to_lowercase(letter)

\* pass_entry that never pushes to used_chars
pass_entry_no_used(m, entry, unproductive_chars, used_chars) ==
    LET first == get_selection(entry, m.allowed_chars, m.allowed_regex,
                               unproductive_chars \o used_chars,
                               m.match_allowed_chars_case,
                               m.match_selection_case)
    IN  [entry |-> first.entry, used_chars |-> used_chars]

\* the body of `for entry in &mut self.current_entries` of the
\* minimize_keys branch, for one entry: the entry and used_chars after it
pass_entry(m, entry, unproductive_chars, used_chars) ==
    LET disallowed_chars == unproductive_chars \o used_chars
        first == get_selection(entry, m.allowed_chars, m.allowed_regex,
                               disallowed_chars, m.match_allowed_chars_case,
                               m.match_selection_case)
        second == get_selection(entry, m.allowed_chars, m.allowed_regex,
                                unproductive_chars, m.match_allowed_chars_case,
                                m.match_selection_case)
    IN  IF first.ret
        THEN [entry |-> first.entry,
              used_chars |-> Append(used_chars,
                                    used_char(m, first.entry.selection_letter))]
        ELSE [entry |-> second.entry, used_chars |-> used_chars]

\* the whole for loop of one pass, entries i.. still to do
RECURSIVE pass(_, _, _, _, _)
pass(m, entries, i, unproductive_chars, used_chars) ==
    IF i > Len(entries) THEN entries
    ELSE LET r == pass_entry(m, entries[i], unproductive_chars, used_chars)
         IN  pass(m, [entries EXCEPT ![i] = r.entry], i + 1,
                  unproductive_chars, r.used_chars)

\* `not_same`: some entry's letter differs from the first entry's
not_same(entries) ==
    \E i \in 1..Len(entries) :
        entries[i].selection_letter # entries[1].selection_letter

letters(entries) == [i \in 1..Len(entries) |-> entries[i].selection_letter]

chars_of(s) == {s[i] : i \in 1..Len(s)}

\* the `loop` of the minimize_keys branch, n passes done so far.
\*   "ok"    : a pass broke out of the loop
\*   "panic" : current_entries[0] indexed an empty Vec
\*   "hung"  : a rejected pass changed no entry and pushed a char that
\*             unproductive_chars already contained, so every later pass
\*             repeats it (or MaxPasses passes were rejected)
RECURSIVE minimize_loop(_, _, _, _, _)
minimize_loop(m, entries, unproductive_chars, n, log) ==
    LET done == pass(m, entries, 1, unproductive_chars, <<>>)
        log2 == Append(log, letters(done))
        res(o, e, u) == [outcome |-> o, entries |-> e, passes |-> n + 1,
                         unproductive_chars |-> u, log |-> log2]
    IN  IF not_same(done) THEN res("ok", done, unproductive_chars)
        ELSE IF Len(done) = 0 THEN res("panic", done, unproductive_chars)
        ELSE LET pushed == Append(unproductive_chars, done[1].selection_letter)
             IN  IF \/ n + 1 >= MaxPasses
                    \/ /\ done = entries
                       /\ done[1].selection_letter \in chars_of(unproductive_chars)
                 THEN res("hung", done, pushed)
                 ELSE minimize_loop(m, done, pushed, n + 1, log2)

\* the else branch: one get_selection per entry with no disallowed chars
plain_pass(m, entries) ==
    [i \in 1..Len(entries) |->
        get_selection(entries[i], m.allowed_chars, m.allowed_regex, <<>>,
                      m.match_allowed_chars_case, m.match_selection_case).entry]

\* Menu::find_entry_selections
find_entry_selections(m, entries) ==
    IF m.minimize_keys
    THEN minimize_loop(m, entries, <<>>, 0, <<>>)
    ELSE [outcome |-> "ok", entries |-> plain_pass(m, entries), passes |-> 1,
          unproductive_chars |-> <<>>,
          log |-> <<letters(plain_pass(m, entries))>>]

-----------------------------------------------------------------------------
(* menus of the model *)

\* labels the entry lists are drawn from
LabelPool ==
    {<<"a">>, <<"a", "b">>, <<"A">>, <<"A", "b">>}

RECURSIVE lists_upto(_)
lists_upto(n) ==
    IF n = 0 THEN {<<>>}
    ELSE LET shorter == lists_upto(n - 1)
         IN  shorter \cup {Append(l, x) : l \in shorter, x \in LabelPool}

\* the lists of section 8 of the specification, and lists with a label
\* that has no char to select, a space or a two-byte char
ScenarioLists ==
    {<<<<"a", "p", "p", "l", "e">>, <<"b", "a", "n", "a", "n", "a">>,
       <<"c", "h", "e", "r", "r", "y">>>>,
     <<<<"c", "a", "t">>, <<"c", "a", "r">>>>,
     <<<<"C", "x">>, <<"c">>>>,
     <<<<>>, <<"a", "b">>>>,
     <<<<" ">>, <<"a">>, <<"a">>>>,
     <<<<"a", " ", "b">>, <<"a", "b">>>>,
     <<<<"b", "a">>, <<"a", "b">>, <<"B">>>>,
     <<<<"b">>, <<"a">>, <<"a", "A", "b">>>>,
     <<<<"e_acute", "a", "b">>, <<"e_acute", "a", "c">>>>}

EntryLists == lists_upto(MaxEntries) \cup ScenarioLists

\* the lists of static entries: one entry shorter, to keep the command
\* menus few
StaticLists == lists_upto(MaxEntries - 1) \cup ScenarioLists

\* the lists a directory can give: a file stem is not empty
NamedLists == {l \in EntryLists : \A i \in 1..Len(l) : l[i] # <<>>}

\* the command template of a command menu; "{}" is the placeholder
CommandTemplate == <<"x", " ", "{}">>

\* Path::join of the menu's directory and a file name (DirEntry::path)
path(name) == <<"/">> \o name

\* Path::file_stem of a file name: the name without its last extension
file_stem(name) ==
    IF Len(name) > 2 /\ name[Len(name) - 1] = "."
    THEN SubSeq(name, 1, Len(name) - 2)
    ELSE name

\* the files of a directory whose stems are `names`: the i-th has the
\* extension Extensions[i], so that equal stems are different files
Extensions == <<"1", "2", "3", "4", "5", "6">>

files(names) == [i \in 1..Len(names) |-> names[i] \o <<".", Extensions[i]>>]

\* config.rs generate_menus, Entry::Simple of a menu whose action is
\* Command and that has a command
static_entries(names) ==
    [i \in 1..Len(names) |->
        EntryNew(names[i], names[i], ActionCommand(CommandTemplate))]

\* Menu::new for an open menu with remove_extension over a directory that
\* holds files(names)
DirectoryMenu(names, allowed_chars, macc, allowed_regex, msc, mk) ==
    [entries |-> <<>>, action |-> "Open", directory |-> <<files(names)>>,
     remove_extension |-> TRUE, command |-> <<>>,
     allowed_chars |-> allowed_chars, match_allowed_chars_case |-> macc,
     allowed_regex |-> allowed_regex, match_selection_case |-> msc,
     minimize_keys |-> mk]

\* Menu::new for a command menu with static entries `names`
CommandMenu(names, allowed_chars, macc, allowed_regex, msc, mk) ==
    [entries |-> static_entries(names), action |-> "Command",
     directory |-> <<>>, remove_extension |-> FALSE,
     command |-> <<CommandTemplate>>,
     allowed_chars |-> allowed_chars, match_allowed_chars_case |-> macc,
     allowed_regex |-> allowed_regex, match_selection_case |-> msc,
     minimize_keys |-> mk]

\* config.rs generate_menus, the filter_map over Entry::Simple strings: a
\* Command menu without a command skips every one of them
simple_entries(action, command, names) ==
    IF action = "Command" /\ command = <<>>
    THEN <<>>
    ELSE [i \in 1..Len(names) |->
            EntryNew(names[i], names[i],
                     IF action = "Open" THEN ActionOpen
                     ELSE ActionCommand(command[1]))]

\* Menu::new for a command menu without `command`, under the default
\* Global: `directory` is None (<<>>) or Some of a listing
CommandlessMenu(directory, names) ==
    [entries |-> simple_entries("Command", <<>>, names), action |-> "Command",
     directory |-> directory, remove_extension |-> FALSE, command |-> <<>>,
     allowed_chars |-> <<>>, match_allowed_chars_case |-> FALSE,
     allowed_regex |-> DefaultRegex, match_selection_case |-> FALSE,
     minimize_keys |-> FALSE]

\* the directories and the Entry::Simple lists of the command-less menus
CommandlessDirectories ==
    {<<>>, <<<<>>>>, <<files(<<<<"a">>>>)>>, <<files(<<<<"a">>, <<"a", "b">>>>)>>}

CommandlessLists == {<<>>, <<<<"a">>>>, <<<<"a">>, <<"a", "b">>>>}

AllowedCharsPool == {<<>>, <<"a", "B">>}

RegexPool == {NoRegex, DefaultRegex}

\* allowed_chars and allowed_regex of a menu: one restriction at most
Restrictions ==
    {r \in AllowedCharsPool \X RegexPool : r[1] = <<>> \/ r[2] = NoRegex}

Menus ==
    {DirectoryMenu(l, r[1], macc, r[2], msc, mk) :
        l \in NamedLists, r \in Restrictions, macc \in BOOLEAN,
        msc \in BOOLEAN, mk \in BOOLEAN}
    \cup
    {CommandMenu(l, r[1], macc, r[2], msc, mk) :
        l \in StaticLists, r \in Restrictions, macc \in BOOLEAN,
        msc \in BOOLEAN, mk \in BOOLEAN}
    \cup
    {CommandlessMenu(d, l) : d \in CommandlessDirectories, l \in CommandlessLists}

\* the keys the webview sends
Keys == {"a", "A", "b", "B", "c"}

-----------------------------------------------------------------------------
(* menu.rs: get_entries, filter *)

\* `self.command.clone().unwrap()` in the closure over the directory's
\* entries: it runs for the first listed entry of a Command menu and
\* panics when the menu has no command
command_unwrap_panics(m) ==
    /\ m.directory # <<>>
    /\ m.directory[1] # <<>>
    /\ m.action = "Command"
    /\ m.command = <<>>

\* the Vec get_entries builds before it calls find_entry_selections:
\* the directory's entries (Option is a sequence of length 0 or 1), then
\* the static ones; no entry is built from a directory whose closure
\* finds no command
read_entries(m) ==
    LET listed == IF m.directory = <<>> \/ (m.action = "Command" /\ m.command = <<>>)
                  THEN <<>> ELSE m.directory[1]
        name(i) == IF m.remove_extension THEN file_stem(listed[i])
                   ELSE listed[i]
        of_dir == [i \in 1..Len(listed) |->
                     EntryNew(name(i), path(listed[i]),
                              IF m.action = "Open" THEN ActionOpen
                              ELSE ActionCommand(m.command[1]))]
    IN  of_dir \o m.entries

\* Menu::get_entries; the panic of the unwrap comes before the assignment
\* to current_entries, which keeps the list `current` it had
get_entries(m, current) ==
    IF command_unwrap_panics(m)
    THEN [outcome |-> "panic", entries |-> current, passes |-> 0,
          unproductive_chars |-> <<>>, log |-> <<>>]
    ELSE find_entry_selections(m, read_entries(m))

\* `letter` of Menu::filter
filter_letter(m, in_letter) ==
    IF ~m.match_allowed_chars_case THEN to_lowercase(in_letter) ELSE in_letter

\* the closure of has_match and of retain
letter_matches(m, x, letter) ==
    IF m.match_selection_case
    THEN x.selection_letter = letter
    ELSE to_lowercase(x.selection_letter) = letter

has_match(m, entries, letter) ==
    \E i \in 1..Len(entries) : letter_matches(m, entries[i], letter)

\* retain that hands the kept entries back last first
retain_reversed(m, entries, letter) ==
    LET keep(x) == letter_matches(m, x, letter)
        kept == SelectSeq(entries, keep)
    IN  [i \in 1..Len(kept) |-> kept[Len(kept) + 1 - i]]

\* Vec::retain with the closure of Menu::filter
retain(m, entries, letter) ==
    LET keep(x) == letter_matches(m, x, letter) IN SelectSeq(entries, keep)

\* `entry.pos = entry.selection_index + 1` for every entry
advance(entries) ==
    [i \in 1..Len(entries) |->
        [entries[i] EXCEPT !.pos = entries[i].selection_index + 1]]

\* str::replace("{}", string) on the command template
RECURSIVE replace(_, _)
replace(cmd, string) ==
    IF cmd = <<>> THEN <<>>
    ELSE (IF Head(cmd) = "{}" THEN string ELSE <<Head(cmd)>>)
         \o replace(Tail(cmd), string)

\* activate that takes every action for Open
activate_open_only(action, string) == [call |-> "open_path", arg |-> string]

\* ActionType::activate: the external call it makes
activate(action, string) ==
    IF action.type = "Open"
    THEN [call |-> "open_path", arg |-> string]
    ELSE [call |-> "sh -c", arg |-> replace(action.cmd, string)]

-----------------------------------------------------------------------------
(* state *)

NoCall == [op |-> "none"]

Last(op, key, ret, emitted, fes) ==
    [op |-> op, key |-> key, ret |-> ret, emitted |-> emitted,
     passes |-> fes.passes, log |-> fes.log,
     unproductive_chars |-> fes.unproductive_chars]

NoFes == [passes |-> 0, log |-> <<>>, unproductive_chars |-> <<>>]

NoMenu == [generation |-> -1, shortcut |-> 0, loaded |-> FALSE]

\* no handler is running and the config thread waits in rx.recv()
ThreadsAtRest ==
    /\ mutex = [menus |-> "none", idx |-> "none", poisoned |-> FALSE]
    /\ pc = [hotkey |-> "idle", main |-> "idle", reload |-> "recv"]
    /\ local = [shortcut |-> 0, index |-> 0, idx |-> USIZE_MAX, config |-> 0,
                generation |-> 0]
    /\ opened_menu = NoMenu

TypeOK ==
    /\ menu \in Menus
    /\ state_idx \in {0, USIZE_MAX}
    /\ status \in {"running", "panicked", "hung", "blocked"}
    /\ Len(current_entries) <= MaxEntries

\* main.rs setup: no menu is open; the config thread has generated the menu
Init ==
    /\ menu \in Menus
    /\ current_entries = <<>>
    /\ state_idx = USIZE_MAX
    /\ status = "running"
    /\ dispatched = <<>>
    /\ last = Last("init", "none", "none", <<>>, NoFes)
    /\ gs_call = NoCall
    /\ menus = <<>>
    /\ ThreadsAtRest

\* main.rs, the global-shortcut handler with the menu's shortcut pressed:
\* open(app, menu), then the index is stored
Open ==
    /\ status = "running"
    /\ LET fes == get_entries(menu, current_entries)
       IN  /\ current_entries' = fes.entries
           /\ IF fes.outcome = "ok"
              THEN /\ state_idx' = 0
                   /\ status' = status
                   /\ last' = Last("open", "none", "none", <<fes.entries>>, fes)
              ELSE /\ state_idx' = state_idx
                   /\ status' = IF fes.outcome = "panic" THEN "panicked" ELSE "hung"
                   /\ last' = Last("open", "none", "none", <<>>, fes)
    /\ dispatched' = <<>>
    /\ UNCHANGED <<menu, gs_call, threads>>

\* menu.rs close: the window is hidden and the index reset
Close ==
    /\ status \in {"running", "panicked"}
    /\ state_idx' = USIZE_MAX
    /\ last' = Last("close", "none", "none", <<>>, NoFes)
    /\ UNCHANGED <<menu, current_entries, status, dispatched, gs_call, threads>>

\* filter_entries with no menu open: state_guard[usize::MAX] panics
FilterNoSession(in_char) ==
    /\ status = "running"
    /\ state_idx = USIZE_MAX
    /\ status' = "panicked"
    /\ last' = Last("filter", in_char, "none", <<>>, NoFes)
    /\ UNCHANGED <<menu, current_entries, state_idx, dispatched, gs_call, threads>>

\* FilterIgnored that emits nothing when filter found no match
FilterIgnored_silent(in_char) ==
    /\ status = "running"
    /\ state_idx # USIZE_MAX
    /\ ~has_match(menu, current_entries, filter_letter(menu, in_char))
    /\ last' = Last("filter", in_char, "true", <<>>, NoFes)
    /\ UNCHANGED <<menu, current_entries, state_idx, status, dispatched, gs_call, threads>>

\* filter_entries, Menu::filter returning at `if !has_match`
FilterIgnored(in_char) ==
    /\ status = "running"
    /\ state_idx # USIZE_MAX
    /\ ~has_match(menu, current_entries, filter_letter(menu, in_char))
    /\ last' = Last("filter", in_char, "true", <<current_entries>>, NoFes)
    /\ UNCHANGED <<menu, current_entries, state_idx, status, dispatched, gs_call, threads>>

\* what the external program does: open_path returns Ok or Err once the
\* opener has been started; Command::output returns when the child has
\* exited, whatever its exit status, and does not return while it runs
ExternalOutcomes == {"done", "failed", "never_exits"}

\* filter_entries, Menu::filter with one entry retained: activate, close.
\* open_path may fail, and the expect then panics before close; output()
\* waits for the child of a Command, so that the handler stays in activate
\* for a child that never exits
FilterActivate(in_char) ==
    /\ status = "running"
    /\ state_idx # USIZE_MAX
    /\ LET letter == filter_letter(menu, in_char)
           kept == retain(menu, current_entries, letter)
       IN  /\ has_match(menu, current_entries, letter)
           /\ Len(kept) = 1
           /\ current_entries' = kept
           /\ dispatched' = Append(dispatched,
                                   activate(kept[1].action, kept[1].full_string))
           /\ \E external \in ExternalOutcomes :
                CASE kept[1].action.type = "Open" /\ external = "failed" ->
                     /\ state_idx' = state_idx
                     /\ status' = "panicked"
                     /\ last' = Last("filter", in_char, "none", <<>>, NoFes)
                  [] kept[1].action.type = "Command" /\ external = "never_exits" ->
                     /\ state_idx' = state_idx
                     /\ status' = "blocked"
                     /\ last' = Last("filter", in_char, "none", <<>>, NoFes)
                  [] OTHER ->
                     /\ state_idx' = USIZE_MAX
                     /\ status' = status
                     /\ last' = Last("filter", in_char, "false", <<kept>>, NoFes)
    /\ UNCHANGED <<menu, gs_call, threads>>

\* filter_entries, Menu::filter with several entries retained: the cursors
\* advance and the letters are assigned again
FilterNarrow(in_char) ==
    /\ status = "running"
    /\ state_idx # USIZE_MAX
    /\ LET letter == filter_letter(menu, in_char)
           kept == retain(menu, current_entries, letter)
           fes == find_entry_selections(menu, advance(kept))
       IN  /\ has_match(menu, current_entries, letter)
           /\ Len(kept) # 1
           /\ current_entries' = fes.entries
           /\ IF fes.outcome = "ok"
              THEN /\ status' = status
                   /\ last' = Last("filter", in_char, "true", <<fes.entries>>, fes)
              ELSE /\ status' = IF fes.outcome = "panic" THEN "panicked" ELSE "hung"
                   /\ last' = Last("filter", in_char, "none", <<>>, fes)
    /\ UNCHANGED <<menu, state_idx, dispatched, gs_call, threads>>

Next ==
    \/ Open
    \/ Close
    \/ \E in_char \in Keys : FilterNoSession(in_char)
    \/ \E in_char \in Keys : FilterIgnored(in_char)
    \/ \E in_char \in Keys : FilterActivate(in_char)
    \/ \E in_char \in Keys : FilterNarrow(in_char)

Spec == Init /\ [][Next]_vars

-----------------------------------------------------------------------------
(* Entry::get_selection and the plain branch of find_entry_selections on   *)
(* their own: the arguments are drawn in InitSel, GetSelectionCall applies *)
(* the functions                                                           *)

\* largest scan cursor a call starts from
MaxPos == 3

SelStrings ==
    LabelPool \cup
    {<<"c", "a", "t">>, <<"a", " ", "b">>, <<" ", "b", "A">>,
     <<"e_acute", "a", "b">>, <<"B", "a", "b">>, <<>>}

SelAllowedChars == {<<>>, <<"a", "B">>, <<"b">>}

SelDisallowedChars == {<<>>, <<"a">>, <<"b">>, <<"B", "a">>}

\* an entry as a session can hold it: constructed by Entry::new, the cursor
\* moved by filter
SelEntry(string, pos) == [EntryNew(string, string, ActionOpen) EXCEPT !.pos = pos]

\* the menu settings a call is made under
SelMenu(c) ==
    DirectoryMenu(<<>>, c.allowed_chars, c.match_case, c.allowed_regex,
                  c.match_selection_case, FALSE)

AnyMenu == DirectoryMenu(<<>>, <<>>, FALSE, NoRegex, FALSE, FALSE)

InitSel ==
    /\ menu = AnyMenu
    /\ current_entries = <<>>
    /\ state_idx = USIZE_MAX
    /\ status = "running"
    /\ dispatched = <<>>
    /\ last = Last("init", "none", "none", <<>>, NoFes)
    /\ menus = <<>>
    /\ ThreadsAtRest
    /\ \E string \in SelStrings, pos \in 0..MaxPos, ac \in SelAllowedChars,
          re \in RegexPool, dc \in SelDisallowedChars,
          mc \in BOOLEAN, msc \in BOOLEAN, second \in SelStrings :
            gs_call = [op |-> "call", entry |-> SelEntry(string, pos),
                       second |-> SelEntry(second, 0),
                       allowed_chars |-> ac, allowed_regex |-> re,
                       disallowed_chars |-> dc, match_case |-> mc,
                       match_selection_case |-> msc]

\* entry.get_selection(..) on the drawn arguments, and find_entry_selections
\* of a menu without minimize_keys over [entry, second]
GetSelectionCall ==
    /\ gs_call.op = "call"
    /\ LET c == gs_call
           r == get_selection(c.entry, c.allowed_chars, c.allowed_regex,
                              c.disallowed_chars, c.match_case,
                              c.match_selection_case)
           f == find_entry_selections(SelMenu(c), <<c.entry, c.second>>)
       IN  gs_call' = [c EXCEPT !.op = "ret"]
                      @@ [ret |-> r.ret, after |-> r.entry, plain |-> f.entries]
    /\ UNCHANGED <<menu, current_entries, state_idx, status, dispatched, last, threads>>

NextSel == GetSelectionCall

SpecSel == InitSel /\ [][NextSel]_vars

-----------------------------------------------------------------------------
(* the threads: the thread the global-shortcut plugin calls its handler on
   (the main thread or a thread of its own, by platform), the main thread,
   which runs the commands filter_entries and close one at a time, and the
   thread that start_listening spawns.  A Menu is its generation (which
   generate_menus call built it), its shortcut, and whether get_entries has
   loaded it; what Menu::filter does with a keystroke is left open. *)

\* menus in one config file
MaxMenus == 2

\* config changes the watcher reports
MaxReloads == 2

Shortcuts == 1..MaxMenus

\* the Vec generate_menus builds from a config with n menus
new_menus(generation, n) ==
    [i \in 1..n |-> [generation |-> generation, shortcut |-> i, loaded |-> FALSE]]

\* the menu the session variables hold while the threads are followed
ThreadsMenu == DirectoryMenu(<<<<"a">>>>, <<>>, FALSE, NoRegex, FALSE, FALSE)

\* the setup of main.rs and the first generate_menus of the spawned thread
InitThreads ==
    /\ menu = ThreadsMenu
    /\ current_entries = <<>>
    /\ state_idx = USIZE_MAX
    /\ status = "running"
    /\ dispatched = <<>>
    /\ last = Last("init", "none", "none", <<>>, NoFes)
    /\ gs_call = NoCall
    /\ \E n \in 1..MaxMenus : menus = new_menus(0, n)
    /\ ThreadsAtRest

Goto(t, label) == pc' = [pc EXCEPT ![t] = label]

\* Mutex::lock returning the guard to thread t
Lock(t, m) == mutex[m] = "none" /\ mutex' = [mutex EXCEPT ![m] = t]

\* the guard is dropped
Unlock(m) == mutex' = [mutex EXCEPT ![m] = "none"]

\* the handler of the global-shortcut plugin is called for a pressed shortcut
HotkeyPressed(shortcut) ==
    /\ pc.hotkey = "idle"
    /\ local' = [local EXCEPT !.shortcut = shortcut]
    /\ Goto("hotkey", "hotkey_lock_menus")
    /\ UNCHANGED <<session, state_idx, menus, mutex, opened_menu>>

\* app.state::<Mutex<Vec<Menu>>>().lock().unwrap()
HotkeyLockMenus ==
    /\ pc.hotkey = "hotkey_lock_menus"
    /\ mutex.menus = "none"
    /\ IF mutex.poisoned
       THEN Goto("hotkey", "panicked") /\ UNCHANGED mutex
       ELSE Lock("hotkey", "menus") /\ Goto("hotkey", "hotkey_loop")
    /\ UNCHANGED <<session, state_idx, menus, local, opened_menu>>

\* the for loop up to open(app, menu) for the first menu with the shortcut;
\* without such a menu the loop ends and the guard is dropped
HotkeyLoop ==
    /\ pc.hotkey = "hotkey_loop"
    /\ LET found == {i \in 1..Len(menus) : menus[i].shortcut = local.shortcut}
           first == CHOOSE i \in found : \A j \in found : i <= j
       IN  IF found = {}
           THEN /\ Unlock("menus")
                /\ Goto("hotkey", "idle")
                /\ UNCHANGED <<menus, local>>
           ELSE /\ menus' = [menus EXCEPT ![first].loaded = TRUE]
                /\ local' = [local EXCEPT !.index = first - 1]
                /\ Goto("hotkey", "hotkey_lock_idx")
                /\ UNCHANGED mutex
    /\ UNCHANGED <<session, state_idx, opened_menu>>

\* app.state::<Mutex<usize>>().lock().unwrap(), the menu list still locked
HotkeyLockIdx ==
    /\ pc.hotkey = "hotkey_lock_idx"
    /\ Lock("hotkey", "idx")
    /\ Goto("hotkey", "hotkey_store_idx")
    /\ UNCHANGED <<session, state_idx, menus, local, opened_menu>>

\* `* ... = index`
HotkeyStoreIdx ==
    /\ pc.hotkey = "hotkey_store_idx"
    /\ state_idx' = local.index
    /\ opened_menu' = menus[local.index + 1]
    /\ Unlock("idx")
    /\ Goto("hotkey", "hotkey_unlock_menus")
    /\ UNCHANGED <<session, menus, local>>

\* break: the guard of the menu list is dropped
HotkeyUnlockMenus ==
    /\ pc.hotkey = "hotkey_unlock_menus"
    /\ Unlock("menus")
    /\ Goto("hotkey", "idle")
    /\ UNCHANGED <<session, state_idx, menus, local, opened_menu>>

\* the webview invokes filter_entries
FilterEntriesInvoked ==
    /\ pc.main = "idle"
    /\ Goto("main", "filter_lock_idx")
    /\ UNCHANGED <<session, state_idx, menus, mutex, local, opened_menu>>

\* state_idx.lock()
FilterLockIdx ==
    /\ pc.main = "filter_lock_idx"
    /\ Lock("main", "idx")
    /\ Goto("main", "filter_read_idx")
    /\ UNCHANGED <<session, state_idx, menus, local, opened_menu>>

\* FilterReadIdx with the guard bound to a name, alive until the handler
\* returns
FilterReadIdx_guard_kept ==
    /\ pc.main = "filter_read_idx"
    /\ local' = [local EXCEPT !.idx = state_idx]
    /\ Goto("main", "filter_lock_menus")
    /\ UNCHANGED <<session, state_idx, menus, mutex, opened_menu>>

\* `let idx = *guard`, the guard dropped at the end of the statement
FilterReadIdx ==
    /\ pc.main = "filter_read_idx"
    /\ local' = [local EXCEPT !.idx = state_idx]
    /\ Unlock("idx")
    /\ Goto("main", "filter_lock_menus")
    /\ UNCHANGED <<session, state_idx, menus, opened_menu>>

\* state.lock().expect(..)
FilterLockMenus ==
    /\ pc.main = "filter_lock_menus"
    /\ mutex.menus = "none"
    /\ IF mutex.poisoned
       THEN Goto("main", "panicked") /\ UNCHANGED mutex
       ELSE Lock("main", "menus") /\ Goto("main", "filter_index")
    /\ UNCHANGED <<session, state_idx, menus, local, opened_menu>>

\* `&mut state_guard[idx]`, which panics out of range and poisons the mutex,
\* then menu.filter: it may activate an entry only of a loaded menu
FilterIndex ==
    /\ pc.main = "filter_index"
    /\ IF local.idx \notin 0..(Len(menus) - 1)
       THEN /\ mutex' = [mutex EXCEPT !.menus = "none", !.poisoned = TRUE]
            /\ Goto("main", "panicked")
       ELSE /\ \E activates \in BOOLEAN :
                 /\ activates => menus[local.idx + 1].loaded
                 /\ Goto("main", IF activates THEN "filter_close_lock_idx"
                                 ELSE "filter_unlock_menus")
            /\ UNCHANGED mutex
    /\ UNCHANGED <<session, state_idx, menus, local, opened_menu>>

\* close(app.clone()) inside Menu::filter: the index is locked while the
\* menu list is
FilterCloseLockIdx ==
    /\ pc.main = "filter_close_lock_idx"
    /\ Lock("main", "idx")
    /\ Goto("main", "filter_close_store")
    /\ UNCHANGED <<session, state_idx, menus, local, opened_menu>>

FilterCloseStore ==
    /\ pc.main = "filter_close_store"
    /\ state_idx' = USIZE_MAX
    /\ Unlock("idx")
    /\ Goto("main", "filter_unlock_menus")
    /\ UNCHANGED <<session, menus, local, opened_menu>>

\* the emit, and state_guard dropped at the end of filter_entries
FilterUnlockMenus ==
    /\ pc.main = "filter_unlock_menus"
    /\ Unlock("menus")
    /\ Goto("main", "idle")
    /\ UNCHANGED <<session, state_idx, menus, local, opened_menu>>

\* the webview invokes close
CloseInvoked ==
    /\ pc.main = "idle"
    /\ Goto("main", "close_lock_idx")
    /\ UNCHANGED <<session, state_idx, menus, mutex, local, opened_menu>>

CloseLockIdx ==
    /\ pc.main = "close_lock_idx"
    /\ Lock("main", "idx")
    /\ Goto("main", "close_store")
    /\ UNCHANGED <<session, state_idx, menus, local, opened_menu>>

CloseStore ==
    /\ pc.main = "close_store"
    /\ state_idx' = USIZE_MAX
    /\ Unlock("idx")
    /\ Goto("main", "idle")
    /\ UNCHANGED <<session, menus, local, opened_menu>>

\* rx.recv() returns and load gives a config with n menus
ConfigChanged(n) ==
    /\ pc.reload = "recv"
    /\ local.generation < MaxReloads
    /\ local' = [local EXCEPT !.config = n]
    /\ Goto("reload", "reload_lock_idx")
    /\ UNCHANGED <<session, state_idx, menus, mutex, opened_menu>>

\* the lock() of the if condition
ReloadLockIdx ==
    /\ pc.reload = "reload_lock_idx"
    /\ Lock("reload", "idx")
    /\ Goto("reload", "reload_check_idx")
    /\ UNCHANGED <<session, state_idx, menus, local, opened_menu>>

\* `!= usize::MAX`; the guard is dropped with the condition
ReloadCheckIdx ==
    /\ pc.reload = "reload_check_idx"
    /\ Unlock("idx")
    /\ Goto("reload", IF state_idx # USIZE_MAX THEN "reload_close_lock_idx"
                      ELSE "reload_lock_menus")
    /\ UNCHANGED <<session, state_idx, menus, local, opened_menu>>

\* menu::close(app.clone())
ReloadCloseLockIdx ==
    /\ pc.reload = "reload_close_lock_idx"
    /\ Lock("reload", "idx")
    /\ Goto("reload", "reload_close_store")
    /\ UNCHANGED <<session, state_idx, menus, local, opened_menu>>

ReloadCloseStore ==
    /\ pc.reload = "reload_close_store"
    /\ state_idx' = USIZE_MAX
    /\ Unlock("idx")
    /\ Goto("reload", "reload_lock_menus")
    /\ UNCHANGED <<session, menus, local, opened_menu>>

\* menus.lock().unwrap(), the argument of generate_menus
ReloadLockMenus ==
    /\ pc.reload = "reload_lock_menus"
    /\ mutex.menus = "none"
    /\ IF mutex.poisoned
       THEN Goto("reload", "panicked") /\ UNCHANGED mutex
       ELSE Lock("reload", "menus") /\ Goto("reload", "generate_menus")
    /\ UNCHANGED <<session, state_idx, menus, local, opened_menu>>

\* generate_menus: unregister_all, clear, a push and a register per menu;
\* the guard it was given is dropped when it returns
GenerateMenus ==
    /\ pc.reload = "generate_menus"
    /\ menus' = new_menus(local.generation + 1, local.config)
    /\ local' = [local EXCEPT !.generation = @ + 1]
    /\ Unlock("menus")
    /\ Goto("reload", "recv")
    /\ UNCHANGED <<session, state_idx, opened_menu>>

NextThreads ==
    \/ \E shortcut \in Shortcuts : HotkeyPressed(shortcut)
    \/ HotkeyLockMenus
    \/ HotkeyLoop
    \/ HotkeyLockIdx
    \/ HotkeyStoreIdx
    \/ HotkeyUnlockMenus
    \/ FilterEntriesInvoked
    \/ FilterLockIdx
    \/ FilterReadIdx
    \/ FilterLockMenus
    \/ FilterIndex
    \/ FilterCloseLockIdx
    \/ FilterCloseStore
    \/ FilterUnlockMenus
    \/ CloseInvoked
    \/ CloseLockIdx
    \/ CloseStore
    \/ \E n \in 0..MaxMenus : ConfigChanged(n)
    \/ ReloadLockIdx
    \/ ReloadCheckIdx
    \/ ReloadCloseLockIdx
    \/ ReloadCloseStore
    \/ ReloadLockMenus
    \/ GenerateMenus

SpecThreads == InitThreads /\ [][NextThreads]_vars

-----------------------------------------------------------------------------
(* notions the properties are stated in *)

\* a session is open and the handlers run
SessionOpen == status = "running" /\ state_idx # USIZE_MAX

\* a keystroke matches a selection letter: equal when match_selection_case,
\* equal under case folding otherwise
KeyMatches(k, letter) ==
    IF menu.match_selection_case
    THEN k = letter
    ELSE to_lowercase(k) = to_lowercase(letter)

MatchesNone(k, entries) ==
    \A i \in 1..Len(entries) : ~KeyMatches(k, entries[i].selection_letter)

\* the external call an entry's action and payload stand for
ExpectedDispatch(e) ==
    IF e.action.type = "Open"
    THEN [call |-> "open_path", arg |-> e.full_string]
    ELSE [call |-> "sh -c", arg |-> <<"x", " ">> \o e.full_string]

Banana == <<"b", "a", "n", "a", "n", "a">>

-----------------------------------------------------------------------------
(* C1 *)

\* C1: in one session the dispatcher is invoked at most once, and exactly
\* at the filter step that leaves one entry of the session, with that
\* entry's action and payload; a filter step that narrows the list to one
\* entry dispatches, and no other step does.
C1_DispatchOnce ==
    [][/\ (dispatched' # dispatched /\ dispatched' # <<>>) =>
            /\ dispatched = <<>>
            /\ last'.op = "filter"
            /\ Len(current_entries') = 1
            /\ \E i \in 1..Len(current_entries) :
                   current_entries[i] = current_entries'[1]
            /\ dispatched' = <<ExpectedDispatch(current_entries'[1])>>
       /\ (/\ last'.op = "filter"
           /\ Len(current_entries) > 1
           /\ Len(current_entries') = 1) =>
            /\ dispatched = <<>>
            /\ Len(dispatched') = 1
      ]_vars

\* scenario A: 'B' has activated "banana" and the session is closed
C1_Witness ==
    /\ last.op = "filter"
    /\ last.key = "B"
    /\ Len(dispatched) = 1
    /\ current_entries[1].string = Banana
    /\ dispatched[1] = ExpectedDispatch(current_entries[1])
    /\ state_idx = USIZE_MAX

-----------------------------------------------------------------------------
(* C2 *)

\* C2: a keystroke is ignored exactly when it matches no entry's selection
\* letter, where matching is equality under match_selection_case (exact
\* when true, case-folded when false) whatever match_allowed_chars_case is.
C2_KeystrokeMatching ==
    [][(SessionOpen /\ last'.op = "filter") =>
         ((last'.ret = "true" /\ last'.passes = 0)
            <=> MatchesNone(last'.key, current_entries))
      ]_vars

-----------------------------------------------------------------------------
(* C3 *)

\* C3: a keystroke that matches no entry's selection letter leaves the
\* entries (order, letters, offsets, cursors) as they were and the session
\* open.
C3_NoMatchNoChange ==
    [][(/\ SessionOpen
        /\ last'.op = "filter"
        /\ MatchesNone(last'.key, current_entries)) =>
         /\ current_entries' = current_entries
         /\ state_idx' = state_idx
         /\ status' = status
      ]_vars

-----------------------------------------------------------------------------
(* C4 *)

\* C4 as claimed: no entry list is emitted for a keystroke that matches no
\* entry and changes nothing.
C4_IgnoredNotEmitted ==
    [][(/\ SessionOpen
        /\ last'.op = "filter"
        /\ MatchesNone(last'.key, current_entries)
        /\ current_entries' = current_entries
        /\ state_idx' = state_idx
        /\ status' = status) =>
         last'.emitted = <<>>
      ]_vars

\* C4 amended: after every keystroke whose handler returns, the ignored
\* ones included, the current entry list is emitted, and filter returns
\* true for an ignored keystroke as it does for an updated list.
C4_AlwaysEmitted ==
    [][(SessionOpen /\ last'.op = "filter" /\ status' = "running") =>
         /\ last'.emitted = <<current_entries'>>
         /\ (dispatched' = dispatched => last'.ret = "true")
      ]_vars

\* an ignored keystroke: nothing matched, the list of two or more entries
\* was emitted again
C4_Witness ==
    /\ SessionOpen
    /\ last.op = "filter"
    /\ last.ret = "true"
    /\ last.passes = 0
    /\ Len(current_entries) >= 2
    /\ MatchesNone(last.key, current_entries)
    /\ last.emitted = <<current_entries>>

-----------------------------------------------------------------------------
(* C5 *)

\* find_entry_selections ran in the last step, in its minimize_keys branch
ResolverRan == menu.minimize_keys /\ last.passes > 0

\* C5: with minimize_keys the letter-assignment loop returns, after at most
\* alphabet-size passes, for every entry list: the empty one, a single
\* entry, identical labels, fewer than two distinct eligible chars.
C5_ResolverTerminates ==
    ResolverRan => (status # "hung" /\ last.passes <= AlphabetSize)

-----------------------------------------------------------------------------
(* C6 *)

\* a letter as the selection-case rule compares it
Fold(c) == IF menu.match_selection_case THEN c ELSE to_lowercase(c)

\* the chars of an entry's label, from its cursor on, that the allow-list
\* and the pattern accept
EligibleChars(e) ==
    {e.string[k] : k \in {j \in (e.pos + 1)..Len(e.string) :
        char_selected(e.string[j], menu.allowed_chars, menu.allowed_regex,
                      <<>>, menu.match_allowed_chars_case,
                      menu.match_selection_case)}}

EligibleLetters(entries) ==
    UNION {{Fold(c) : c \in EligibleChars(entries[i])} : i \in 1..Len(entries)}

AllShareOneLetter(entries) ==
    \A i \in 1..Len(entries) :
        /\ entries[i].selection_letter # CHAR_MAX
        /\ Fold(entries[i].selection_letter) = Fold(entries[1].selection_letter)

\* C6: with minimize_keys, when two or more entries have two or more
\* distinct eligible chars between them, the resolver finishes and the
\* entries do not all share one selection letter under the selection-case
\* rule.
C6_Discriminates ==
    (/\ ResolverRan
     /\ Len(current_entries) >= 2
     /\ Cardinality(EligibleLetters(current_entries)) >= 2) =>
        /\ status = "running"
        /\ ~AllShareOneLetter(current_entries)

-----------------------------------------------------------------------------
(* C7 *)

MenuStrings == [i \in 1..Len(read_entries(menu)) |-> read_entries(menu)[i].string]

\* scenario B has just been opened
CatCarOpened ==
    /\ MenuStrings = <<<<"c", "a", "t">>, <<"c", "a", "r">>>>
    /\ menu.minimize_keys
    /\ ~menu.match_selection_case
    /\ menu.allowed_chars = <<>>
    /\ last.op = "open"

\* C7 as claimed: ["cat","car"] takes three passes, 'c','c' then 'a','a'
\* then 't','r'.
C7_ThreePasses ==
    CatCarOpened =>
        /\ last.passes = 3
        /\ last.log = <<<<"c", "c">>, <<"a", "a">>, <<"t", "r">>>>

\* C7 amended: ["cat","car"] takes one pass, which is accepted: "cat" gets
\* 'c' and "car", for which 'c' is already used, gets 'a'; no char becomes
\* unproductive.
C7_OnePass ==
    CatCarOpened =>
        /\ status = "running"
        /\ last.passes = 1
        /\ last.log = <<<<"c", "a">>>>
        /\ last.unproductive_chars = <<>>
        /\ letters(current_entries) = <<"c", "a">>

C7_Witness ==
    /\ CatCarOpened
    /\ state_idx = 0
    /\ letters(current_entries) = <<"c", "a">>

\* MaxPasses is never what stops the loop: a loop reported as not returning
\* has reached a pass that repeats for ever
PassesWithinCap == last.passes < MaxPasses

-----------------------------------------------------------------------------
(* C8 *)

\* the byte offset of the k-th char: one byte per char before it, one more
\* for each two-byte char
ByteOffset(string, k) ==
    (k - 1) + Cardinality({j \in 1..(k - 1) : string[j] = "e_acute"})

\* positions after the cursor whose char is no space, is in allowed when
\* allowed is not empty, matches the pattern when there is one, and is not
\* in disallowed, all compared exactly
ExactCandidates(e, allowed, regex, disallowed) ==
    {k \in (e.pos + 1)..Len(e.string) :
        /\ e.string[k] # " "
        /\ (allowed # <<>> => e.string[k] \in chars_of(allowed))
        /\ (regex # NoRegex => is_match(regex, e.string[k]))
        /\ e.string[k] \notin chars_of(disallowed)}

Min(S) == CHOOSE k \in S : \A j \in S : k <= j

\* `after` holds the first of the candidates, when there is one
HoldsFirst(after, e, candidates) ==
    candidates # {} =>
        /\ after.selection_letter = e.string[Min(candidates)]
        /\ after.selection_index = ByteOffset(e.string, Min(candidates))

\* C8: with both case flags true, get_selection returns true exactly when
\* the label has, at or after the cursor (counted in chars), a char that is
\* no space, is in allowed_chars when that is non-empty, matches the
\* pattern when one is configured and is not in the disallowed set; it
\* assigns the first such char and that char's (byte) index; without
\* minimize_keys find_entry_selections gives every entry what one call
\* with an empty disallowed set gives.
C8_FirstEligibleChar ==
    (gs_call.op = "ret" /\ gs_call.match_case /\ gs_call.match_selection_case) =>
        LET c == gs_call
            cands == ExactCandidates(c.entry, c.allowed_chars, c.allowed_regex,
                                     c.disallowed_chars)
            cands1 == ExactCandidates(c.entry, c.allowed_chars,
                                      c.allowed_regex, <<>>)
            cands2 == ExactCandidates(c.second, c.allowed_chars,
                                      c.allowed_regex, <<>>)
        IN  /\ c.ret = (cands # {})
            /\ HoldsFirst(c.after, c.entry, cands)
            /\ Len(c.plain) = 2
            /\ HoldsFirst(c.plain[1], c.entry, cands1)
            /\ HoldsFirst(c.plain[2], c.second, cands2)

\* a call that skipped a char the pattern rejects and a disallowed char,
\* and assigned the char at byte 3 of a label with a two-byte char
C8_Witness ==
    /\ gs_call.op = "ret"
    /\ gs_call.match_case
    /\ gs_call.match_selection_case
    /\ gs_call.entry.string = <<"e_acute", "a", "b">>
    /\ gs_call.entry.pos = 0
    /\ gs_call.allowed_regex = DefaultRegex
    /\ gs_call.disallowed_chars = <<"a">>
    /\ gs_call.ret
    /\ gs_call.after.selection_letter = "b"
    /\ gs_call.after.selection_index = 3
    /\ gs_call.plain[1].selection_letter = "a"

-----------------------------------------------------------------------------
(* C9 *)

\* positions after the cursor whose char is no space and equals some char
\* of allowed under case folding
FoldedCandidates(e, allowed) ==
    {k \in (e.pos + 1)..Len(e.string) :
        /\ e.string[k] # " "
        /\ \E i \in 1..Len(allowed) :
               to_lowercase(allowed[i]) = to_lowercase(e.string[k])}

\* C9: with allowed_chars non-empty and match_allowed_chars_case false (no
\* pattern, nothing disallowed), the char get_selection assigns is the
\* first that equals some char of allowed_chars under case folding,
\* whatever the case allowed_chars is written in.
C9_AllowedCaseFolded ==
    (/\ gs_call.op = "ret"
     /\ ~gs_call.match_case
     /\ gs_call.allowed_chars # <<>>
     /\ gs_call.allowed_regex = NoRegex
     /\ gs_call.disallowed_chars = <<>>) =>
        LET c == gs_call
            cands == FoldedCandidates(c.entry, c.allowed_chars)
        IN  /\ c.ret = (cands # {})
            /\ HoldsFirst(c.after, c.entry, cands)

-----------------------------------------------------------------------------
(* C10 *)

\* C10: after an assignment pass, at open or after a filter that left
\* several entries, an entry with no eligible char from its cursor on has
\* no selection letter, and no key retains or activates it.
C10_NoEligibleNoLetter ==
    (SessionOpen /\ last.passes > 0) =>
        \A i \in 1..Len(current_entries) :
            EligibleChars(current_entries[i]) = {} =>
                /\ current_entries[i].selection_letter = CHAR_MAX
                /\ \A k \in Keys :
                       ~letter_matches(menu, current_entries[i],
                                       filter_letter(menu, k))

-----------------------------------------------------------------------------
(* C11 *)

\* the allow-list accepts c: compared exactly when match_allowed_chars_case,
\* under case folding otherwise
AllowListAccepts(c) ==
    \/ menu.allowed_chars = <<>>
    \/ \E i \in 1..Len(menu.allowed_chars) :
           IF menu.match_allowed_chars_case
           THEN menu.allowed_chars[i] = c
           ELSE to_lowercase(menu.allowed_chars[i]) = to_lowercase(c)

PatternAccepts(c) ==
    menu.allowed_regex = NoRegex \/ is_match(menu.allowed_regex, c)

\* c is in the set of chars, under the selection-case rule
Disallows(chars, c) == \E i \in 1..Len(chars) : Fold(chars[i]) = Fold(c)

\* C11: while a session is open every selection letter that is present is
\* no space, is accepted by the allow-list and the pattern, and, after a
\* minimize_keys resolution, is not one of the chars that resolution made
\* unproductive.
C11_LetterAllowed ==
    SessionOpen =>
        \A i \in 1..Len(current_entries) :
            LET c == current_entries[i].selection_letter
            IN  c # CHAR_MAX =>
                    /\ c # " "
                    /\ AllowListAccepts(c)
                    /\ PatternAccepts(c)
                    /\ ~Disallows(last.unproductive_chars, c)

-----------------------------------------------------------------------------
(* C12 *)

\* new is old with some entries removed: an order-preserving injection of
\* new's indices into old's under which R relates each pair
\* (between lists of one length the only such injection is the identity)
Embeds(new, old, R(_, _)) ==
    IF Len(new) = Len(old)
    THEN \A i \in 1..Len(new) : R(new[i], old[i])
    ELSE /\ Len(new) < Len(old)
         /\ \E f \in [1..Len(new) -> 1..Len(old)] :
                /\ \A i, j \in 1..Len(new) : i < j => f[i] < f[j]
                /\ \A i \in 1..Len(new) : R(new[i], old[f[i]])

SameEntry(x, y) ==
    /\ x.string = y.string
    /\ x.full_string = y.full_string
    /\ x.action = y.action

CursorNotBelow(x, y) == SameEntry(x, y) /\ x.pos >= y.pos

\* a keystroke handled in the open session
KeystrokeStep == SessionOpen /\ last'.op = "filter"

\* C12: a keystroke never lowers the scan cursor of an entry it keeps.
C12_CursorMonotone ==
    [][KeystrokeStep => Embeds(current_entries', current_entries, CursorNotBelow)]_vars

\* "cat" and "car" after the keystrokes c and a: the second keystroke moved
\* both cursors from 1 to 2
C12_Witness ==
    /\ last.op = "filter"
    /\ last.key = "a"
    /\ Len(current_entries) = 2
    /\ current_entries[1].string = <<"c", "a", "t">>
    /\ current_entries[2].string = <<"c", "a", "r">>
    /\ \A i \in 1..2 : current_entries[i].pos = 2

-----------------------------------------------------------------------------
(* C13 *)

CursorAbove(x, y) == SameEntry(x, y) /\ x.pos > y.pos

\* a keystroke that Menu::filter matched and that left several entries
NarrowStep ==
    /\ KeystrokeStep
    /\ has_match(menu, current_entries, filter_letter(menu, last'.key))
    /\ status' = "running"
    /\ Len(current_entries') > 1

\* C13: a filter step that leaves more than one entry moves the scan cursor
\* of every entry it keeps strictly forward.
C13_CursorProgress ==
    [][NarrowStep => Embeds(current_entries', current_entries, CursorAbove)]_vars

-----------------------------------------------------------------------------
(* C14 *)

\* C14: the current entry list is the list read at session open with some
\* entries removed: same labels, payloads and actions, in the same order.
C14_Subsequence ==
    Embeds(current_entries, read_entries(menu), SameEntry)

\* "ba", "ab", "B" after the keystroke b: the middle entry is gone and the
\* other two are left in their order
C14_Witness ==
    /\ SessionOpen
    /\ last.op = "filter"
    /\ Len(read_entries(menu)) = 3
    /\ Len(current_entries) = 2
    /\ current_entries[1].string = <<"b", "a">>
    /\ current_entries[2].string = <<"B">>

-----------------------------------------------------------------------------
(* C15 *)

\* the keystroke that left one entry and handed it to the dispatcher
ActivationStep == KeystrokeStep /\ dispatched' # dispatched

\* C15: once the activating keystroke has been handled the menu's current
\* entry list is empty and the active index is the no-session value.
C15_TornDown ==
    [][ActivationStep => current_entries' = <<>> /\ state_idx' = USIZE_MAX]_vars

-----------------------------------------------------------------------------
(* C16 *)

\* a keystroke handled while no session is open, the last session having
\* been activated or closed
LateKeystrokeStep ==
    /\ status = "running"
    /\ state_idx = USIZE_MAX
    /\ last.op \in {"filter", "close"}
    /\ last'.op = "filter"

\* C16: a keystroke after the session was activated or closed changes no
\* entry list, dispatches nothing, emits nothing and raises no failure.
C16_LateKeystrokeInert ==
    [][LateKeystrokeStep =>
          /\ current_entries' = current_entries
          /\ dispatched' = dispatched
          /\ last'.emitted = <<>>
          /\ status' = "running"]_vars

-----------------------------------------------------------------------------
(* C19 *)

\* C19: whatever the external open or command returns, the activating
\* keystroke's handler returns normally and leaves the active index reset.
C19_DispatchFailureSwallowed ==
    [][(ActivationStep /\ status' # "blocked") =>
          /\ status' = "running"
          /\ last'.ret = "false"
          /\ state_idx' = USIZE_MAX]_vars

-----------------------------------------------------------------------------
(* C20 *)

CommandWithoutTemplate == menu.action = "Command" /\ menu.command = <<>>

\* C20: a hotkey open of a Command menu that has no command template does
\* not fail and leaves a session without entries.
C20_NoTemplateNoEntry ==
    (CommandWithoutTemplate /\ last.op = "open") =>
        status = "running" /\ SessionOpen /\ current_entries = <<>>

-----------------------------------------------------------------------------
(* C17 *)

\* generate_menus has replaced the menu list
MenusInstalled == local'.generation # local.generation

\* C17: at the moment new menu definitions are installed the active index
\* is the no-session value.
C17_NoSessionAtInstall ==
    [][MenusInstalled => state_idx' = USIZE_MAX]_vars

-----------------------------------------------------------------------------
(* C18 *)

SameMenu(x, y) == x.generation = y.generation /\ x.shortcut = y.shortcut

\* C18: when filter_entries indexes the menu list with the index it read
\* for an open session, the index is in range and the menu at it is the one
\* the session was opened for.
C18_IndexStillValid ==
    (pc.main = "filter_index" /\ local.idx # USIZE_MAX) =>
        /\ local.idx \in 0..(Len(menus) - 1)
        /\ SameMenu(menus[local.idx + 1], opened_menu)

-----------------------------------------------------------------------------
(* C21 *)

\* C21: the handler of the activating keystroke does not wait for the
\* external process: whatever that process does, the handler is not left
\* inside the dispatch with the session open.
C21_DispatchNotAwaited ==
    [][ActivationStep => status' # "blocked"]_vars

-----------------------------------------------------------------------------
(* C22 *)

\* every letter of a pass is present and equals the first under the
\* selection-case rule
SharedLetter(pass_letters) ==
    \A i \in 1..Len(pass_letters) :
        /\ pass_letters[i] # CHAR_MAX
        /\ Fold(pass_letters[i]) = Fold(pass_letters[1])

\* the i-th pass of the last resolver run was followed by another pass
PassRejected(i) == i < Len(last.log) \/ status = "hung"

\* C22: a minimize_keys pass is rejected exactly when all its entries hold a
\* letter and the letters are equal under the selection-case rule.
C22_RejectionRule ==
    (ResolverRan /\ status \in {"running", "hung"}) =>
        \A i \in 1..Len(last.log) :
            PassRejected(i) <=> SharedLetter(last.log[i])

-----------------------------------------------------------------------------
(* C23 *)

\* the letters the entries before the i-th hold, as the selection-case rule
\* compares them
HeldBefore(entries, i) ==
    {Fold(entries[j].selection_letter) :
        j \in {k \in 1..(i - 1) : entries[k].selection_letter # CHAR_MAX}}

\* the i-th entry holds a letter that an earlier entry holds too
SharesWithEarlier(entries, i) ==
    /\ entries[i].selection_letter # CHAR_MAX
    /\ Fold(entries[i].selection_letter) \in HeldBefore(entries, i)

\* an eligible char of the i-th entry's label, from its cursor on, that is
\* neither unproductive nor held by an earlier entry
HasAlternative(entries, unproductive_chars, i) ==
    \E c \in EligibleChars(entries[i]) :
        /\ ~Disallows(unproductive_chars, c)
        /\ Fold(c) \notin HeldBefore(entries, i)

\* the last step ran the minimize_keys resolver and its last pass was accepted
PassAccepted == ResolverRan /\ status = "running"

\* C23: in an accepted minimize_keys pass an entry shares its letter with an
\* earlier entry only if its label has no eligible char left that is neither
\* unproductive nor held by an earlier entry.
C23_ReuseOnlyWithoutAlternative ==
    PassAccepted =>
        \A i \in 1..Len(current_entries) :
            SharesWithEarlier(current_entries, i) =>
                ~HasAlternative(current_entries, last.unproductive_chars, i)

-----------------------------------------------------------------------------
(* C24 *)

Threads == {"hotkey", "main", "reload"}

AcquiringMenus(t) ==
    pc[t] \in {"hotkey_lock_menus", "filter_lock_menus", "reload_lock_menus"}

AcquiringIdx(t) ==
    pc[t] \in {"hotkey_lock_idx", "filter_lock_idx", "filter_close_lock_idx",
               "close_lock_idx", "reload_lock_idx", "reload_close_lock_idx"}

\* the mutex thread t is about to lock
Wants(t) ==
    IF AcquiringMenus(t) THEN "menus"
    ELSE IF AcquiringIdx(t) THEN "idx" ELSE "none"

\* t is at a lock() of a mutex that is held
Blocked(t) == Wants(t) # "none" /\ mutex[Wants(t)] # "none"

\* the thread t waits for, "none" when t is not waiting
WaitsFor(t) == IF Blocked(t) THEN mutex[Wants(t)] ELSE "none"

\* t waits, directly or through a chain of waiting holders, for itself
InWaitCycle(t) ==
    LET t1 == WaitsFor(t)
        t2 == IF t1 = "none" THEN "none" ELSE WaitsFor(t1)
        t3 == IF t2 = "none" THEN "none" ELSE WaitsFor(t2)
    IN  t \in {t1, t2, t3}

\* C24: no thread acquires the menu-list mutex while it holds the index
\* mutex, no thread is in a cycle of threads each waiting for a mutex the
\* next one holds, and a held mutex is held by a thread that is running:
\* not at rest and not dead.
C24_NoDeadlock ==
    /\ \A t \in Threads :
          /\ mutex.idx = t => ~AcquiringMenus(t)
          /\ ~InWaitCycle(t)
    /\ \A m \in {"menus", "idx"} :
          mutex[m] # "none" => pc[mutex[m]] \notin {"idle", "recv", "panicked"}

\* a chain of waits: filter_entries waits for the menu list, which the
\* hotkey handler holds while it waits for the index, which the reload
\* thread holds for its check
C24_Witness ==
    /\ pc.main = "filter_lock_menus"
    /\ mutex.menus = "hotkey"
    /\ pc.hotkey = "hotkey_lock_idx"
    /\ mutex.idx = "reload"

-----------------------------------------------------------------------------
(* C25 *)

\* the position (chars counted from 1) of the char an entry's selection
\* index points at, 0 when the entry has no selection
ChosenPosition(e) ==
    IF \E k \in 1..Len(e.string) : ByteOffset(e.string, k) = e.selection_index
    THEN CHOOSE k \in 1..Len(e.string) :
            ByteOffset(e.string, k) = e.selection_index
    ELSE 0

\* the entries of the open session the keystroke c keeps
Survivors(c) == retain(menu, current_entries, filter_letter(menu, c))

\* C25: after a filter step that leaves several entries, the cursor of
\* every entry kept is the number of chars of its label up to and including
\* the char chosen before the step, so that the next scan starts at the
\* char right after it.
C25_ResumeAfterChosen ==
    [][NarrowStep =>
          \A i \in 1..Len(Survivors(last'.key)) :
              /\ SameEntry(current_entries'[i], Survivors(last'.key)[i])
              /\ current_entries'[i].pos = ChosenPosition(Survivors(last'.key)[i])]_vars

====
